---------------------------- MODULE Spec2Model ----------------------------
(***************************************************************************)
(* The six hook scripts of src/hooks as one state machine.  A hook is a    *)
(* single-shot process: it reads one event from standard input, classifies *)
(* it and exits.  A behaviour is one invocation: Init is the moment before *)
(* the external caller starts a hook, and each action is the whole main()  *)
(* of one script, with the event and the outcomes of its external calls    *)
(* drawn from bounded sets.                                                *)
(*                                                                         *)
(* Text is modelled at the level of characters: a Python str is a tuple of *)
(* characters (one-character strings; the two-byte character e-acute is    *)
(* the atom "U+00E9").  Non-ASCII characters of the printed messages are   *)
(* written in ASCII ("->" for the arrow, "--" for the dash).               *)
(***************************************************************************)
EXTENDS Integers, Sequences, FiniteSets, TLC

VARIABLES
    pc,            \* "idle" before the invocation, "exited" after it
    hook,          \* the script that was run
    stdin,         \* the event payload it read
    external,      \* outcome of the external calls it made (filesystem, tsc, git)
    issues,        \* the findings it accumulated, in order
    stdout,        \* the lines it printed to standard output, in order
    stderr,        \* the lines it printed to standard error, in order
    exit_status,   \* the process exit status
    metrics_file,  \* the content of .claude/agent-metrics.jsonl, in the order written
    writers        \* the track-metrics processes that run side by side

vars == <<pc, hook, stdin, external, issues, stdout, stderr, exit_status, metrics_file,
          writers>>

-----------------------------------------------------------------------------
(* Characters and Python str methods                                       *)

LowerLetters == <<"a", "b", "c", "d", "e", "f", "g", "h", "i", "j", "k", "l", "m", "n", "o", "p", "q", "r", "s", "t", "u", "v", "w", "x", "y", "z">>
UpperLetters == <<"A", "B", "C", "D", "E", "F", "G", "H", "I", "J", "K", "L", "M", "N", "O", "P", "Q", "R", "S", "T", "U", "V", "W", "X", "Y", "Z">>
DigitChars == <<"0", "1", "2", "3", "4", "5", "6", "7", "8", "9">>

Range(s) == {s[i] : i \in 1..Len(s)}

Min(a, b) == IF a < b THEN a ELSE b

\* c * n: the character c, n times
Rep(c, n) == [i \in 1..n |-> c]

Letters == Range(LowerLetters) \cup Range(UpperLetters)
AlnumChars == Letters \cup Range(DigitChars)

\* str.lower() on one character
LowerChar(c) ==
    IF c \in Range(UpperLetters)
    THEN LowerLetters[CHOOSE i \in 1..26 : UpperLetters[i] = c]
    ELSE c

UpperChar(c) ==
    IF c \in Range(LowerLetters)
    THEN UpperLetters[CHOOSE i \in 1..26 : LowerLetters[i] = c]
    ELSE c

\* str.lower()
Lower(s) == [i \in 1..Len(s) |-> LowerChar(s[i])]

\* len(c.encode('utf-8', errors='replace')) for one character
Utf8Len(c) == IF c = "U+00E9" THEN 2 ELSE 1

\* needle in haystack (substring test of Python's `in` on str)
Contains(haystack, needle) ==
    \E i \in 0..(Len(haystack) - Len(needle)) :
        \A j \in 1..Len(needle) : haystack[i + j] = needle[j]

\* index of the last occurrence of character c in s, 0 when absent (str.rfind + 1)
LastIndexOf(s, c) ==
    LET I == {i \in 1..Len(s) : s[i] = c}
    IN  IF I = {} THEN 0 ELSE CHOOSE i \in I : \A j \in I : j <= i

\* os.path.basename (posixpath): what follows the last "/"
Basename(p) == SubSeq(p, LastIndexOf(p, "/") + 1, Len(p))

\* os.path.splitext(p)[1] (posixpath): from the last "." of the basename, unless
\* that dot is one of the leading dots of the basename
Splitext1(p) ==
    LET sep == LastIndexOf(p, "/")
        dot == LastIndexOf(p, ".")
    IN  IF dot > sep /\ (\E k \in (sep + 1)..(dot - 1) : p[k] # ".")
        THEN SubSeq(p, dot, Len(p))
        ELSE <<>>

\* str.lstrip(chars): drop every leading character that is in the set chars
Lstrip(s, chars) ==
    LET Keep == {i \in 1..Len(s) : s[i] \notin chars}
    IN  IF Keep = {} THEN <<>>
        ELSE SubSeq(s, CHOOSE i \in Keep : \A j \in Keep : i <= j, Len(s))

\* fnmatch.fnmatch(name, pat) on POSIX (normcase is the identity): the whole name
\* matches the pattern, where "*" matches any run of characters ("/" included) and
\* "?" any one character.  P is the set of lengths of the prefixes of name that
\* the first k-1 pattern characters match.
RECURSIVE FnmatchFrom(_, _, _, _)
FnmatchFrom(name, pat, k, P) ==
    IF k > Len(pat) \/ P = {} THEN P
    ELSE FnmatchFrom(name, pat, k + 1,
            IF pat[k] = "*" THEN {q \in 0..Len(name) : \E p \in P : p <= q}
            ELSE IF pat[k] = "?" THEN {p + 1 : p \in {r \in P : r < Len(name)}}
            ELSE {p + 1 : p \in {r \in P : r < Len(name) /\ name[r + 1] = pat[k]}})

Fnmatch(name, pat) == Len(name) \in FnmatchFrom(name, pat, 1, {0})

-----------------------------------------------------------------------------
(* Regular expressions (module re), as operators on sets of positions: a   *)
(* position is the number of characters consumed; an atom maps the set of  *)
(* positions a match can have reached to the set it can reach next.        *)

\* \w for str patterns: letters (Unicode letters included), digits, underscore
IsWord(c) == c \in AlnumChars \cup {"_", "U+00E9"}

\* \s
SpaceChars == {" ", "\n", "\t"}

\* membership of a character in a class, under re.IGNORECASE (ci) or not
InClass(c, class, ci) ==
    \/ c \in class
    \/ ci /\ (LowerChar(c) \in class \/ UpperChar(c) \in class)

\* a literal string
ReLit(s, P, lit, ci) ==
    {p + Len(lit) : p \in {r \in P :
        /\ r + Len(lit) <= Len(s)
        /\ \A j \in 1..Len(lit) :
              IF ci THEN LowerChar(s[r + j]) = LowerChar(lit[j]) ELSE s[r + j] = lit[j]}}

\* length of the longest run of class characters starting after position p
RECURSIVE RunLen(_, _, _, _)
RunLen(s, p, class, ci) ==
    IF p < Len(s) /\ InClass(s[p + 1], class, ci)
    THEN 1 + RunLen(s, p + 1, class, ci)
    ELSE 0

\* [class]{lo,hi}; hi = -1 for no upper limit
ReRep(s, P, class, ci, lo, hi) ==
    UNION {{q \in (p + lo)..(p + RunLen(s, p, class, ci)) : hi = -1 \/ q <= p + hi} : p \in P}

\* [^class]+
RECURSIVE RunLenNot(_, _, _)
RunLenNot(s, p, class) ==
    IF p < Len(s) /\ s[p + 1] \notin class
    THEN 1 + RunLenNot(s, p + 1, class)
    ELSE 0

RePlusNot(s, P, class) ==
    UNION {(p + 1)..(p + RunLenNot(s, p, class)) : p \in P}

\* \b: exactly one of the characters around position p is a word character
ReWordBoundary(s, P) ==
    {p \in P : (p >= 1 /\ IsWord(s[p])) # (p < Len(s) /\ IsWord(s[p + 1]))}

\* every position a search may start at
AllPos(s) == 0..Len(s)

-----------------------------------------------------------------------------
(* JSON values of the event payload                                        *)
(*                                                                         *)
(* A value is a record [t, v, pad].  t is the JSON type as the scripts can *)
(* tell it apart: "absent" (no such key), "null", "num" (a non-zero        *)
(* number) or "str".  A str is the characters v followed by pad space      *)
(* characters: pad stands for the bulk of a large file, which no rule      *)
(* pattern can match into because every pattern begins and ends with a     *)
(* character that is not a space.                                          *)

Absent == [t |-> "absent", v |-> <<>>, pad |-> 0]
Null == [t |-> "null", v |-> <<>>, pad |-> 0]
Num == [t |-> "num", v |-> <<>>, pad |-> 0]
Str(chars) == [t |-> "str", v |-> chars, pad |-> 0]
Padded(chars, n) == [t |-> "str", v |-> chars, pad |-> n]
EmptyStr == Str(<<>>)

\* dict.get(key, ""): the default stands in for an absent key only
GetOrEmpty(x) == IF x.t = "absent" THEN EmptyStr ELSE x

\* truth value of a Python object
Truthy(x) == x.t = "num" \/ (x.t = "str" /\ (x.v # <<>> \/ x.pad > 0))

\* a or b
Or(a, b) == IF Truthy(a) THEN a ELSE b

\* the characters a pattern can see: v and the first space of the padding
Text(x) == IF x.pad > 0 THEN x.v \o <<" ">> ELSE x.v

RECURSIVE Utf8LenOf(_)
Utf8LenOf(s) == IF s = <<>> THEN 0 ELSE Utf8Len(Head(s)) + Utf8LenOf(Tail(s))

\* len(x.encode('utf-8', errors='replace'))
ByteLen(x) == Utf8LenOf(x.v) + x.pad

\* a printed line: the literal text of its format string, and the values it
\* interpolates (a path, a rule's label and remediation, a number, a limit)
Line(text, path, label, remediation, n) ==
    [text |-> text, path |-> path, label |-> label, remediation |-> remediation,
     n |-> n, limit |-> 0]

TextLine(text) == Line(text, <<>>, "", "", 0)

-----------------------------------------------------------------------------
(* The rule patterns of security-check.py (SECRET_PATTERNS) and of         *)
(* pre-commit-check.py (DEBUG_PATTERNS, TEMP_MARKERS)                      *)

TokenChars == AlnumChars \cup {"_", "-"}

\* (?i)(api[_-]?key|apikey)\s*[:=]\s*["\']?[a-zA-Z0-9_-]{20,}
ReApiKey(s) ==
    LET a == ReLit(s, AllPos(s), <<"a", "p", "i">>, TRUE)
        b == ReLit(s, ReRep(s, a, {"_", "-"}, TRUE, 0, 1), <<"k", "e", "y">>, TRUE)
             \cup ReLit(s, AllPos(s), <<"a", "p", "i", "k", "e", "y">>, TRUE)
        c == ReRep(s, b, SpaceChars, TRUE, 0, -1)
        d == ReRep(s, c, {":", "="}, TRUE, 1, 1)
        e == ReRep(s, d, SpaceChars, TRUE, 0, -1)
        f == ReRep(s, e, {"\"", "'"}, TRUE, 0, 1)
    IN  ReRep(s, f, TokenChars, TRUE, 20, -1)

\* (?i)(secret|password|passwd|pwd)\s*[:=]\s*["\'][^"\']+["\']
RePassword(s) ==
    LET a == ReLit(s, AllPos(s), <<"s", "e", "c", "r", "e", "t">>, TRUE)
             \cup ReLit(s, AllPos(s), <<"p", "a", "s", "s", "w", "o", "r", "d">>, TRUE)
             \cup ReLit(s, AllPos(s), <<"p", "a", "s", "s", "w", "d">>, TRUE)
             \cup ReLit(s, AllPos(s), <<"p", "w", "d">>, TRUE)
        b == ReRep(s, a, SpaceChars, TRUE, 0, -1)
        c == ReRep(s, b, {":", "="}, TRUE, 1, 1)
        d == ReRep(s, c, SpaceChars, TRUE, 0, -1)
        e == ReRep(s, d, {"\"", "'"}, TRUE, 1, 1)
        f == RePlusNot(s, e, {"\"", "'"})
    IN  ReRep(s, f, {"\"", "'"}, TRUE, 1, 1)

\* (?i)bearer\s+[a-zA-Z0-9_-]{20,}
ReBearer(s) ==
    LET a == ReLit(s, AllPos(s), <<"b", "e", "a", "r", "e", "r">>, TRUE)
        b == ReRep(s, a, SpaceChars, TRUE, 1, -1)
    IN  ReRep(s, b, TokenChars, TRUE, 20, -1)

\* ghp_[a-zA-Z0-9]{36}
ReGithubToken(s) ==
    ReRep(s, ReLit(s, AllPos(s), <<"g", "h", "p", "_">>, FALSE), AlnumChars, FALSE, 36, 36)

\* github_pat_[a-zA-Z0-9]{22}_[a-zA-Z0-9]{59}
ReGithubPat(s) ==
    LET a == ReLit(s, AllPos(s), <<"g", "i", "t", "h", "u", "b", "_", "p", "a", "t", "_">>, FALSE)
        b == ReRep(s, a, AlnumChars, FALSE, 22, 22)
        c == ReLit(s, b, <<"_">>, FALSE)
    IN  ReRep(s, c, AlnumChars, FALSE, 59, 59)

\* sk-[a-zA-Z0-9]{48}
ReOpenAiKey(s) ==
    ReRep(s, ReLit(s, AllPos(s), <<"s", "k", "-">>, FALSE), AlnumChars, FALSE, 48, 48)

\* sk-ant-[a-zA-Z0-9-]{90,}
ReAnthropicKey(s) ==
    ReRep(s, ReLit(s, AllPos(s), <<"s", "k", "-", "a", "n", "t", "-">>, FALSE), AlnumChars \cup {"-"}, FALSE, 90, -1)

\* -----BEGIN (?:RSA |EC |DSA )?PRIVATE KEY-----
RePrivateKey(s) ==
    LET a == ReLit(s, AllPos(s), <<"-", "-", "-", "-", "-", "B", "E", "G", "I", "N", " ">>, FALSE)
        b == a \cup ReLit(s, a, <<"R", "S", "A", " ">>, FALSE) \cup ReLit(s, a, <<"E", "C", " ">>, FALSE)
               \cup ReLit(s, a, <<"D", "S", "A", " ">>, FALSE)
    IN  ReLit(s, b, <<"P", "R", "I", "V", "A", "T", "E", " ", "K", "E", "Y", "-", "-", "-", "-", "-">>, FALSE)

\* (?i)aws[_-]?access[_-]?key[_-]?id\s*[:=]\s*[A-Z0-9]{20}
ReAwsAccessKey(s) ==
    LET a == ReLit(s, AllPos(s), <<"a", "w", "s">>, TRUE)
        b == ReLit(s, ReRep(s, a, {"_", "-"}, TRUE, 0, 1), <<"a", "c", "c", "e", "s", "s">>, TRUE)
        c == ReLit(s, ReRep(s, b, {"_", "-"}, TRUE, 0, 1), <<"k", "e", "y">>, TRUE)
        d == ReLit(s, ReRep(s, c, {"_", "-"}, TRUE, 0, 1), <<"i", "d">>, TRUE)
        e == ReRep(s, d, SpaceChars, TRUE, 0, -1)
        f == ReRep(s, e, {":", "="}, TRUE, 1, 1)
        g == ReRep(s, f, SpaceChars, TRUE, 0, -1)
    IN  ReRep(s, g, Range(UpperLetters) \cup Range(DigitChars), TRUE, 20, 20)

\* (?i)aws[_-]?secret[_-]?access[_-]?key\s*[:=]\s*[a-zA-Z0-9/+=]{40}
ReAwsSecretKey(s) ==
    LET a == ReLit(s, AllPos(s), <<"a", "w", "s">>, TRUE)
        b == ReLit(s, ReRep(s, a, {"_", "-"}, TRUE, 0, 1), <<"s", "e", "c", "r", "e", "t">>, TRUE)
        c == ReLit(s, ReRep(s, b, {"_", "-"}, TRUE, 0, 1), <<"a", "c", "c", "e", "s", "s">>, TRUE)
        d == ReLit(s, ReRep(s, c, {"_", "-"}, TRUE, 0, 1), <<"k", "e", "y">>, TRUE)
        e == ReRep(s, d, SpaceChars, TRUE, 0, -1)
        f == ReRep(s, e, {":", "="}, TRUE, 1, 1)
        g == ReRep(s, f, SpaceChars, TRUE, 0, -1)
    IN  ReRep(s, g, AlnumChars \cup {"/", "+", "="}, TRUE, 40, 40)

\* \bconsole\.log\s*\(
ReConsoleLog(s) ==
    LET a == ReLit(s, ReWordBoundary(s, AllPos(s)), <<"c", "o", "n", "s", "o", "l", "e", ".", "l", "o", "g">>, FALSE)
        b == ReRep(s, a, SpaceChars, FALSE, 0, -1)
    IN  ReLit(s, b, <<"(">>, FALSE)

\* \bconsole\.debug\s*\(
ReConsoleDebug(s) ==
    LET a == ReLit(s, ReWordBoundary(s, AllPos(s)), <<"c", "o", "n", "s", "o", "l", "e", ".", "d", "e", "b", "u", "g">>, FALSE)
        b == ReRep(s, a, SpaceChars, FALSE, 0, -1)
    IN  ReLit(s, b, <<"(">>, FALSE)

\* \bdebugger\b
ReDebugger(s) ==
    ReWordBoundary(s, ReLit(s, ReWordBoundary(s, AllPos(s)), <<"d", "e", "b", "u", "g", "g", "e", "r">>, FALSE))

\* \bbreakpoint\s*\(
ReBreakpoint(s) ==
    LET a == ReLit(s, ReWordBoundary(s, AllPos(s)), <<"b", "r", "e", "a", "k", "p", "o", "i", "n", "t">>, FALSE)
        b == ReRep(s, a, SpaceChars, FALSE, 0, -1)
    IN  ReLit(s, b, <<"(">>, FALSE)

\* \bpdb\.set_trace\s*\(
RePdbSetTrace(s) ==
    LET a == ReLit(s, ReWordBoundary(s, AllPos(s)), <<"p", "d", "b", ".", "s", "e", "t", "_", "t", "r", "a", "c", "e">>, FALSE)
        b == ReRep(s, a, SpaceChars, FALSE, 0, -1)
    IN  ReLit(s, b, <<"(">>, FALSE)

\* \bFIXME\b
ReFixme(s) ==
    ReWordBoundary(s, ReLit(s, ReWordBoundary(s, AllPos(s)), <<"F", "I", "X", "M", "E">>, FALSE))

\* \bHACK\b
ReHack(s) ==
    ReWordBoundary(s, ReLit(s, ReWordBoundary(s, AllPos(s)), <<"H", "A", "C", "K">>, FALSE))

\* \bXXX\b
ReXxx(s) ==
    ReWordBoundary(s, ReLit(s, ReWordBoundary(s, AllPos(s)), <<"X", "X", "X">>, FALSE))

\* the set of end positions of the matches of the named pattern in s
ReMatches(re, s) ==
    CASE re = "ReApiKey" -> ReApiKey(s)
      [] re = "RePassword" -> RePassword(s)
      [] re = "ReBearer" -> ReBearer(s)
      [] re = "ReGithubToken" -> ReGithubToken(s)
      [] re = "ReGithubPat" -> ReGithubPat(s)
      [] re = "ReOpenAiKey" -> ReOpenAiKey(s)
      [] re = "ReAnthropicKey" -> ReAnthropicKey(s)
      [] re = "RePrivateKey" -> RePrivateKey(s)
      [] re = "ReAwsAccessKey" -> ReAwsAccessKey(s)
      [] re = "ReAwsSecretKey" -> ReAwsSecretKey(s)
      [] re = "ReConsoleLog" -> ReConsoleLog(s)
      [] re = "ReConsoleDebug" -> ReConsoleDebug(s)
      [] re = "ReDebugger" -> ReDebugger(s)
      [] re = "ReBreakpoint" -> ReBreakpoint(s)
      [] re = "RePdbSetTrace" -> RePdbSetTrace(s)
      [] re = "ReFixme" -> ReFixme(s)
      [] re = "ReHack" -> ReHack(s)
      [] re = "ReXxx" -> ReXxx(s)

\* bool(re.findall(pattern, content)) and bool(re.search(pattern, content))
ReSearch(re, s) == ReMatches(re, s) # {}

-----------------------------------------------------------------------------
(* security-check.py                                                       *)

\* the (pattern, secret_type, remediation) triples, in list order; re names the
\* operator above that is the rule's pattern
SECRET_PATTERNS == <<
    [re |-> "ReApiKey", label |-> "API key",
     remediation |-> "Move to .env file and use environment variables (e.g., process.env.API_KEY)"],
    [re |-> "RePassword", label |-> "Password/Secret",
     remediation |-> "Use environment variables or a .env file, never hardcode credentials"],
    [re |-> "ReBearer", label |-> "Bearer token",
     remediation |-> "Move to .env file and use environment variables (e.g., process.env.AUTH_TOKEN)"],
    [re |-> "ReGithubToken", label |-> "GitHub Personal Access Token",
     remediation |-> "Move to .env file and use environment variables (e.g., process.env.GITHUB_TOKEN)"],
    [re |-> "ReGithubPat", label |-> "GitHub PAT (fine-grained)",
     remediation |-> "Move to .env file and use environment variables (e.g., process.env.GITHUB_TOKEN)"],
    [re |-> "ReOpenAiKey", label |-> "OpenAI API Key",
     remediation |-> "Move to .env file and use environment variables (e.g., process.env.OPENAI_API_KEY)"],
    [re |-> "ReAnthropicKey", label |-> "Anthropic API Key",
     remediation |-> "Move to .env file and use environment variables (e.g., process.env.ANTHROPIC_API_KEY)"],
    [re |-> "RePrivateKey", label |-> "Private key",
     remediation |-> "Store in a secrets manager (AWS Secrets Manager, Vault, etc.) -- never commit private keys"],
    [re |-> "ReAwsAccessKey", label |-> "AWS Access Key",
     remediation |-> "Move to .env file and use environment variables (e.g., process.env.AWS_ACCESS_KEY_ID)"],
    [re |-> "ReAwsSecretKey", label |-> "AWS Secret Key",
     remediation |-> "Move to .env file and use environment variables (e.g., process.env.AWS_SECRET_ACCESS_KEY)"] >>

SKIP_FILES == {
    <<".", "e", "n", "v", ".", "e", "x", "a", "m", "p", "l", "e">>, <<".", "e", "n", "v", ".", "t", "e", "m", "p", "l", "a", "t", "e">>, <<".", "e", "n", "v", ".", "s", "a", "m", "p", "l", "e">>,
    <<"p", "a", "c", "k", "a", "g", "e", "-", "l", "o", "c", "k", ".", "j", "s", "o", "n">>, <<"y", "a", "r", "n", ".", "l", "o", "c", "k">>, <<"p", "n", "p", "m", "-", "l", "o", "c", "k", ".", "y", "a", "m", "l">> }

\* SecretScanSkipped, were the test-file rule missing
SkipFilesOnly(file_path) == Basename(file_path) \in SKIP_FILES

\* the two early returns of check_for_secrets
SecretScanSkipped(file_path) ==
    \/ Basename(file_path) \in SKIP_FILES
    \/ Contains(Lower(file_path), <<"t", "e", "s", "t">>) \/ Contains(Lower(file_path), <<"s", "p", "e", "c">>)

\* the loop of check_for_secrets over rules k..10: one issue per matching rule
RECURSIVE SecretIssuesFrom(_, _)
SecretIssuesFrom(text, k) ==
    IF k > Len(SECRET_PATTERNS) THEN <<>>
    ELSE (IF ReSearch(SECRET_PATTERNS[k].re, text)
          THEN <<Line("Potential {secret_type} detected -> {remediation}", <<>>,
                      SECRET_PATTERNS[k].label, SECRET_PATTERNS[k].remediation, 0)>>
          ELSE <<>>)
         \o SecretIssuesFrom(text, k + 1)

\* check_for_secrets(content, file_path), both str
check_for_secrets(content, file_path) ==
    IF SecretScanSkipped(file_path.v) THEN <<>>
    ELSE SecretIssuesFrom(Text(content), 1)

\* print(f"  - {issue}")
IssueLine(issue) == [issue EXCEPT !.text = "  - " \o @]

IssueLines(iss) == [i \in 1..Len(iss) |-> IssueLine(iss[i])]

-----------------------------------------------------------------------------
(* protect-files.py                                                        *)

LockReason(tool) ==
    "Lock files should be updated via package manager (" \o tool \o "), not edited directly"

EnvReason == ".env files contain secrets -- edit manually outside of Claude Code"

\* (pattern, reason) pairs, in list order
PROTECTED_PATTERNS_WITH_REASONS == <<
    [pattern |-> <<"p", "a", "c", "k", "a", "g", "e", "-", "l", "o", "c", "k", ".", "j", "s", "o", "n">>, reason |-> LockReason("npm install")],
    [pattern |-> <<"y", "a", "r", "n", ".", "l", "o", "c", "k">>, reason |-> LockReason("yarn install")],
    [pattern |-> <<"p", "n", "p", "m", "-", "l", "o", "c", "k", ".", "y", "a", "m", "l">>, reason |-> LockReason("pnpm install")],
    [pattern |-> <<"G", "e", "m", "f", "i", "l", "e", ".", "l", "o", "c", "k">>, reason |-> LockReason("bundle install")],
    [pattern |-> <<"p", "o", "e", "t", "r", "y", ".", "l", "o", "c", "k">>, reason |-> LockReason("poetry lock")],
    [pattern |-> <<"C", "a", "r", "g", "o", ".", "l", "o", "c", "k">>, reason |-> LockReason("cargo update")],
    [pattern |-> <<".", "e", "n", "v">>, reason |-> EnvReason],
    [pattern |-> <<".", "e", "n", "v", ".", "l", "o", "c", "a", "l">>, reason |-> EnvReason],
    [pattern |-> <<".", "e", "n", "v", ".", "p", "r", "o", "d", "u", "c", "t", "i", "o", "n">>, reason |-> EnvReason],
    [pattern |-> <<"*", "*", "/", "s", "e", "c", "r", "e", "t", "s", "/", "*">>,
     reason |-> "Secrets directory contains sensitive data -- manage outside of Claude Code"],
    [pattern |-> <<"*", "*", "/", "c", "r", "e", "d", "e", "n", "t", "i", "a", "l", "s", "/", "*">>,
     reason |-> "Credentials directory contains sensitive data -- manage outside of Claude Code"],
    [pattern |-> <<".", "g", "i", "t", "/", "*">>, reason |-> ".git directory is managed by Git -- never edit directly"] >>

PROTECTED_PATTERNS ==
    [i \in 1..Len(PROTECTED_PATTERNS_WITH_REASONS) |-> PROTECTED_PATTERNS_WITH_REASONS[i].pattern]

\* PROTECTED_REASONS.get(blocked, "This file is protected from edits")
PROTECTED_REASONS(blocked) ==
    LET I == {i \in 1..Len(PROTECTED_PATTERNS_WITH_REASONS) :
                 PROTECTED_PATTERNS_WITH_REASONS[i].pattern = blocked}
    IN  IF I = {} THEN "This file is protected from edits"
        ELSE PROTECTED_PATTERNS_WITH_REASONS[CHOOSE i \in I : \A j \in I : j <= i].reason

WARN_PATTERNS == <<
    <<".", "g", "i", "t", "h", "u", "b", "/", "w", "o", "r", "k", "f", "l", "o", "w", "s", "/", "*">>, <<"d", "o", "c", "k", "e", "r", "-", "c", "o", "m", "p", "o", "s", "e", ".", "y", "m", "l">>, <<"D", "o", "c", "k", "e", "r", "f", "i", "l", "e">>, <<"*", "*", "/", "p", "r", "o", "d", "u", "c", "t", "i", "o", "n", "/", "*">> >>

\* file_path.lstrip('./') on the first line of matches_pattern
StripLeading(file_path) == Lstrip(file_path, {".", "/"})

\* the two tests of the loop body of matches_pattern, on the stripped path
PatternHit(stripped, pattern) ==
    Fnmatch(stripped, pattern) \/ Fnmatch(Basename(stripped), pattern)

\* matches_pattern(file_path, patterns): the first pattern of the list that the
\* path or its basename matches; None is the empty tuple (no pattern is empty)
matches_pattern(file_path, patterns) ==
    LET stripped == StripLeading(file_path)
        I == {i \in 1..Len(patterns) : PatternHit(stripped, patterns[i])}
    IN  IF I = {} THEN <<>>
        ELSE patterns[CHOOSE i \in I : \A j \in I : i <= j]

-----------------------------------------------------------------------------
(* pre-commit-check.py                                                     *)

LoggerJs == "Remove before commit, or use a proper logger (e.g., winston, pino)"

DEBUG_PATTERNS == <<
    [re |-> "ReConsoleLog", label |-> "console.log", remediation |-> LoggerJs],
    [re |-> "ReConsoleDebug", label |-> "console.debug", remediation |-> LoggerJs],
    [re |-> "ReDebugger", label |-> "debugger statement",
     remediation |-> "Remove before commit -- debugger statements pause execution in production"],
    [re |-> "ReBreakpoint", label |-> "breakpoint()",
     remediation |-> "Remove before commit -- use a conditional breakpoint or logging instead"],
    [re |-> "RePdbSetTrace", label |-> "pdb.set_trace()",
     remediation |-> "Remove before commit, or use a proper logger (e.g., logging module)"] >>

TEMP_MARKERS == <<
    [re |-> "ReFixme", label |-> "FIXME",
     remediation |-> "Address the issue or convert to a tracked GitHub issue"],
    [re |-> "ReHack", label |-> "HACK",
     remediation |-> "Refactor the workaround or document why it is necessary in a comment"],
    [re |-> "ReXxx", label |-> "XXX",
     remediation |-> "Resolve the concern or convert to a tracked GitHub issue"] >>

MAX_CONTENT_SIZE == 500 * 1024

SKIP_EXTENSIONS == {
    <<".", "m", "d">>, <<".", "m", "a", "r", "k", "d", "o", "w", "n">>, <<".", "t", "x", "t">>, <<".", "r", "s", "t">>, <<".", "j", "s", "o", "n">>, <<".", "y", "m", "l">>, <<".", "y", "a", "m", "l">> }

\* should_skip(file_path)
should_skip(file_path) ==
    LET basename == Lower(Basename(file_path))
        ext == Lower(Splitext1(file_path))
        path_lower == Lower(file_path)
    IN  \/ ext \in SKIP_EXTENSIONS
        \/ Contains(basename, <<"t", "e", "s", "t">>) \/ Contains(basename, <<"s", "p", "e", "c">>)
        \/ Contains(path_lower, <<"/", "t", "e", "s", "t", "s", "/">>) \/ Contains(path_lower, <<"/", "t", "e", "s", "t", "/">>)
           \/ Contains(path_lower, <<"/", "_", "_", "t", "e", "s", "t", "s", "_", "_", "/">>)
        \/ Contains(path_lower, <<"e", "x", "a", "m", "p", "l", "e">>) \/ Contains(path_lower, <<"/", "e", "x", "a", "m", "p", "l", "e", "s", "/">>)

\* one loop of check_content over a rule list, from rule k on
RECURSIVE QualityIssuesFrom(_, _, _, _)
QualityIssuesFrom(text, rules, fmt, k) ==
    IF k > Len(rules) THEN <<>>
    ELSE (IF ReSearch(rules[k].re, text)
          THEN <<Line(fmt, <<>>, rules[k].label, rules[k].remediation, 0)>>
          ELSE <<>>)
         \o QualityIssuesFrom(text, rules, fmt, k + 1)

\* TooLarge, were the comparison inclusive
TooLargeInclusive(content_size) == content_size >= MAX_CONTENT_SIZE

\* content_size > MAX_CONTENT_SIZE
TooLarge(content_size) == content_size > MAX_CONTENT_SIZE

\* the size test of check_content: the finding carries size_kb and the limit,
\* MAX_CONTENT_SIZE // 1024
SizeIssues(content) ==
    LET content_size == ByteLen(content)
    IN  IF TooLarge(content_size)
        THEN <<[Line("Large file content: {size_kb}KB (limit: {limit}KB) -> Consider splitting into smaller modules or extracting data",
                     <<>>, "", "", content_size \div 1024)
                EXCEPT !.limit = MAX_CONTENT_SIZE \div 1024]>>
        ELSE <<>>

\* check_content, were it to stop at the first finding
check_content_first_only(content) ==
    LET all == QualityIssuesFrom(Text(content), DEBUG_PATTERNS, "Debug statement found: {name} -> {suggestion}", 1)
               \o QualityIssuesFrom(Text(content), TEMP_MARKERS, "Temporary marker found: {name} -> {suggestion}", 1)
               \o SizeIssues(content)
    IN  SubSeq(all, 1, Min(1, Len(all)))

\* check_content(content), a str
check_content(content) ==
    QualityIssuesFrom(Text(content), DEBUG_PATTERNS, "Debug statement found: {name} -> {suggestion}", 1)
    \o QualityIssuesFrom(Text(content), TEMP_MARKERS, "Temporary marker found: {name} -> {suggestion}", 1)
    \o SizeIssues(content)

-----------------------------------------------------------------------------
(* The event read from standard input and the result of a run              *)
(*                                                                         *)
(* An event is [json, top, tool_input, file_path, content, new_string]:    *)
(* json says whether standard input parses as JSON; top is the type of the *)
(* top-level value; tool_input the type of input_data["tool_input"]        *)
(* ("absent" when the key is missing); the last three are the values of    *)
(* those keys of tool_input.                                               *)

Event(json, top, tool_input, file_path, content, new_string) ==
    [json |-> json, top |-> top, tool_input |-> tool_input,
     file_path |-> file_path, content |-> content, new_string |-> new_string]

\* json.load(sys.stdin) raises, or one of the two .get calls on the parsed value
\* raises AttributeError: the value is no dict
PayloadRaises(ev) ==
    \/ ~ev.json
    \/ ev.top # "object"
    \/ ev.tool_input \notin {"absent", "object"}

\* what a run leaves behind
Result(iss, out, err, status) ==
    [issues |-> iss, stdout |-> out, stderr |-> err, exit_status |-> status]

\* sys.exit(0), or falling off the end of main, with nothing printed
SilentAllow == Result(<<>>, <<>>, <<>>, 0)

\* FailOpen, were the exception to escape main: a traceback and exit status 1
FailClosed == Result(<<>>, <<>>, <<>>, 1)

\* `except Exception: sys.exit(0)` around the body of main, reached before
\* anything is printed: the exception is swallowed and the edit allowed
FailOpen == Result(<<>>, <<>>, <<>>, 0)

\* the value main of security-check.py and of pre-commit-check.py scans:
\* tool_input.get("content", "") or tool_input.get("new_string", "")
ScannedContent(ev) == Or(GetOrEmpty(ev.content), GetOrEmpty(ev.new_string))

\* the lines security-check.py prints when it blocks
SecurityBlockLines(file_path, iss) ==
    <<Line("U+1F6AB BLOCKED - Security issue detected in {file_path}:", file_path, "", "", 0)>>
    \o IssueLines(iss)
    \o <<TextLine(""),
         TextLine("This edit has been BLOCKED to prevent committing secrets."),
         TextLine("If this is a false positive, review and adjust the patterns in security-check.py"),
         TextLine("See security-patterns skill for secure credential management.")>>

\* `if not file_path or not content: sys.exit(0)` of security-check.py
SecurityEarlyExit(file_path, content) == ~Truthy(file_path) \/ ~Truthy(content)

\* main() of security-check.py
security_check_main(ev) ==
    IF PayloadRaises(ev) THEN FailOpen
    ELSE
    LET file_path == GetOrEmpty(ev.file_path)
        content == ScannedContent(ev)
    IN  IF SecurityEarlyExit(file_path, content) THEN SilentAllow
        \* os.path.basename of a non-str raises TypeError
        ELSE IF file_path.t # "str" THEN FailOpen
        \* re.findall on a non-str raises TypeError, unless the file is skipped
        ELSE IF content.t # "str" /\ ~SecretScanSkipped(file_path.v) THEN FailOpen
        ELSE LET iss == check_for_secrets(content, file_path)
             IN  IF iss # <<>>
                 THEN Result(iss, SecurityBlockLines(file_path.v, iss), <<>>, 2)
                 ELSE SilentAllow

\* the lines protect-files.py prints when it blocks and when it warns
ProtectBlockLines(file_path, blocked) ==
    <<Line("BLOCKED: {file_path}", file_path, "", "", 0),
      Line("   Matches protected pattern: {blocked}", blocked, "", "", 0),
      Line("   Reason: {reason}", <<>>, "", PROTECTED_REASONS(blocked), 0),
      TextLine("   Use --force if this is intentional")>>

ProtectWarnLines(file_path, warned) ==
    <<Line("U+26A0 WARNING: Editing sensitive file: {file_path}", file_path, "", "", 0),
      Line("   Matches pattern: {warned}", warned, "", "", 0)>>

\* ProtectDecision, were the warning patterns checked first
ProtectDecisionWarnFirst(file_path) ==
    LET blocked == matches_pattern(file_path, PROTECTED_PATTERNS)
        warned == matches_pattern(file_path, WARN_PATTERNS)
    IN  IF warned # <<>>
        THEN Result(<<>>, ProtectWarnLines(file_path, warned), <<>>, 0)
        ELSE IF blocked # <<>>
        THEN Result(<<>>, ProtectBlockLines(file_path, blocked), <<>>, 2)
        ELSE Result(<<>>, <<>>, <<>>, 0)

\* the two checks of main() of protect-files.py on a str path, in their order
ProtectDecision(file_path) ==
    LET blocked == matches_pattern(file_path, PROTECTED_PATTERNS)
        warned == matches_pattern(file_path, WARN_PATTERNS)
    IN  IF blocked # <<>>
        THEN Result(<<>>, ProtectBlockLines(file_path, blocked), <<>>, 2)
        ELSE IF warned # <<>>
        THEN Result(<<>>, ProtectWarnLines(file_path, warned), <<>>, 0)
        ELSE SilentAllow

\* main() of protect-files.py
protect_files_main(ev) ==
    IF PayloadRaises(ev) THEN FailOpen
    ELSE
    LET file_path == GetOrEmpty(ev.file_path)
    IN  IF ~Truthy(file_path) THEN SilentAllow
        \* file_path.lstrip on a non-str raises AttributeError
        ELSE IF file_path.t # "str" THEN FailOpen
        ELSE ProtectDecision(file_path.v)

\* the lines pre-commit-check.py prints when it has issues
QualityWarnLines(iss) ==
    <<TextLine("Quality check - issues detected:")>>
    \o IssueLines(iss)
    \o <<TextLine(""), TextLine("Consider resolving before committing.")>>

\* `if file_path and should_skip(file_path): sys.exit(0)` on a str path
QualityExempt(file_path) == Truthy(file_path) /\ should_skip(file_path.v)

\* main() of pre-commit-check.py
pre_commit_check_main(ev) ==
    IF PayloadRaises(ev) THEN FailOpen
    ELSE
    LET file_path == GetOrEmpty(ev.file_path)
        content == ScannedContent(ev)
    IN  IF ~Truthy(content) THEN SilentAllow
        \* os.path.basename of a truthy non-str raises TypeError
        ELSE IF Truthy(file_path) /\ file_path.t # "str" THEN FailOpen
        ELSE IF QualityExempt(file_path) THEN SilentAllow
        \* re.search on a non-str raises TypeError
        ELSE IF content.t # "str" THEN FailOpen
        ELSE LET iss == check_content(content)
             IN  IF iss # <<>>
                 THEN Result(iss, QualityWarnLines(iss), <<>>, 0)
                 ELSE SilentAllow

-----------------------------------------------------------------------------
(* typescript-check.py                                                     *)
(*                                                                         *)
(* The file system and the type checker are the environment: fs is         *)
(* [tsconfig, tsc, tsc_stdout_len], where tsconfig says whether an         *)
(* ancestor directory holds tsconfig.json, tsc is how subprocess.run ended *)
(* ("FileNotFoundError": npx is absent; "TimeoutExpired"; "OSError": any   *)
(* other exception; "exit0"; "exit_nonzero") and tsc_stdout_len is the     *)
(* length of the output that tsc wrote.                                    *)

TS_EXTENSIONS == {<<".", "t", "s">>, <<".", "t", "s", "x">>}

\* find_tsconfig(file_path): the walk up the ancestors finds a tsconfig.json or
\* returns None
find_tsconfig(fs) == fs.tsconfig

\* the lines printed for a failed type check with output
TypescriptLines(file_path, stdout_len) ==
    <<TextLine("TypeScript errors found -- fix these before committing to maintain type safety:"),
      Line("  File edited: {os.path.basename(file_path)}", Basename(file_path), "", "", 0),
      Line("{result.stdout[:2000]}", <<>>, "", "", Min(stdout_len, 2000))>>
    \o (IF stdout_len > 2000 THEN <<TextLine("  ... (truncated)")>> ELSE <<>>)
    \o <<TextLine("Run 'npx tsc --noEmit' locally to see full error output.")>>

\* TscReport, were the hook to exit with the status of a failed type check
TscReportExitCode(file_path, fs) ==
    IF fs.tsc = "exit_nonzero"
    THEN Result(<<>>, TypescriptLines(file_path, fs.tsc_stdout_len), <<>>, 2)
    ELSE Result(<<>>, <<>>, <<>>, 0)

\* the inner try block of main(): the call of tsc and the report
TscReport(file_path, fs) ==
    IF fs.tsc = "exit_nonzero" /\ fs.tsc_stdout_len > 0
    THEN Result(<<>>, TypescriptLines(file_path, fs.tsc_stdout_len), <<>>, 0)
    \* any other exception is left to the outer except
    ELSE IF fs.tsc = "OSError" THEN FailOpen
    \* returncode 0, no output, FileNotFoundError and TimeoutExpired (inner
    \* except): nothing is printed
    ELSE SilentAllow

\* the part of the environment that main() of typescript-check.py consulted
TypescriptConsulted(ev, fs) ==
    IF PayloadRaises(ev) THEN [fs EXCEPT !.tsconfig = "unused", !.tsc = "unused", !.tsc_stdout_len = 0]
    ELSE
    LET file_path == GetOrEmpty(ev.file_path)
    IN  IF ~Truthy(file_path) \/ file_path.t # "str"
           \/ Lower(Splitext1(file_path.v)) \notin TS_EXTENSIONS
        THEN [fs EXCEPT !.tsconfig = "unused", !.tsc = "unused", !.tsc_stdout_len = 0]
        ELSE IF find_tsconfig(fs) = "none"
        THEN [fs EXCEPT !.tsc = "unused", !.tsc_stdout_len = 0]
        ELSE fs

\* main() of typescript-check.py: every path ends in sys.exit(0)
typescript_check_main(ev, fs) ==
    IF PayloadRaises(ev) THEN FailOpen
    ELSE
    LET file_path == GetOrEmpty(ev.file_path)
    IN  IF ~Truthy(file_path) THEN SilentAllow
        \* os.path.splitext of a non-str raises TypeError
        ELSE IF file_path.t # "str" THEN FailOpen
        ELSE IF Lower(Splitext1(file_path.v)) \notin TS_EXTENSIONS THEN SilentAllow
        ELSE IF find_tsconfig(fs) = "none" THEN SilentAllow
        ELSE TscReport(file_path.v, fs)

TscOutcomes ==
    {[tsconfig |-> c, tsc |-> k, tsc_stdout_len |-> 0] :
        c \in {"none", "found"}, k \in {"FileNotFoundError", "TimeoutExpired", "OSError"}}
    \cup {[tsconfig |-> "found", tsc |-> k, tsc_stdout_len |-> n] :
        k \in {"exit0", "exit_nonzero"}, n \in {0, 1, 2000, 2001}}

-----------------------------------------------------------------------------
(* suggest-doc-updates.py                                                  *)
(*                                                                         *)
(* Git is the environment: git is [name_status, others, ls_files], the     *)
(* outcomes of `git diff --name-status HEAD`, `git ls-files --others       *)
(* --exclude-standard` and `git ls-files`.  Each is [ok, files]: ok is     *)
(* run_command's success flag (False when git is absent, times out or      *)
(* exits non-zero) and files the parsed output, a sequence of              *)
(* [status, filepath] for name_status and of paths for the other two.      *)

\* the printable ASCII characters in code point order ("U+0060" is the backtick)
AsciiChars == <<" ", "!", "\"", "#", "$", "%", "&", "'", "(", ")", "*", "+", ",", "-", ".", "/", "0", "1", "2", "3", "4", "5", "6", "7", "8", "9", ":", ";", "<", "=", ">", "?">>
              \o <<"@">> \o <<"A", "B", "C", "D", "E", "F", "G", "H", "I", "J", "K", "L", "M", "N", "O", "P", "Q", "R", "S", "T", "U", "V", "W", "X", "Y", "Z", "[", "\\">> \o <<"]">>
              \o <<"^", "_">> \o <<"U+0060">> \o <<"a", "b", "c", "d", "e", "f", "g", "h", "i", "j", "k", "l", "m", "n", "o", "p", "q", "r", "s", "t", "u", "v", "w", "x", "y", "z", "{", "|", "}", "~">>

\* ord(c)
Ord(c) ==
    IF c \in Range(AsciiChars)
    THEN 31 + (CHOOSE i \in 1..Len(AsciiChars) : AsciiChars[i] = c)
    ELSE 233

\* a < b for str
RECURSIVE StrLess(_, _)
StrLess(a, b) ==
    IF b = <<>> THEN FALSE
    ELSE IF a = <<>> THEN TRUE
    ELSE IF Head(a) = Head(b) THEN StrLess(Tail(a), Tail(b))
    ELSE Ord(Head(a)) < Ord(Head(b))

\* sorted(S) for a set of str
RECURSIVE Sorted(_)
Sorted(S) ==
    IF S = {} THEN <<>>
    ELSE LET m == CHOOSE x \in S : \A y \in S \ {x} : StrLess(x, y)
         IN  <<m>> \o Sorted(S \ {m})

\* s.startswith(prefix)
StartsWith(s, prefix) ==
    Len(prefix) <= Len(s) /\ SubSeq(s, 1, Len(prefix)) = prefix

\* os.path.dirname (posixpath): up to the last "/", trailing slashes dropped
\* unless nothing else is left
Dirname(p) ==
    LET head == SubSeq(p, 1, LastIndexOf(p, "/"))
        Keep == {i \in 1..Len(head) : head[i] # "/"}
    IN  IF Keep = {} THEN head
        ELSE SubSeq(head, 1, CHOOSE i \in Keep : \A j \in Keep : j <= i)

\* get_changed_files(): the tracked changes, then the untracked files as added
get_changed_files(git) ==
    (IF git.name_status.ok THEN git.name_status.files ELSE <<>>)
    \o (IF git.others.ok
        THEN [i \in 1..Len(git.others.files) |->
                 [status |-> <<"A">>, filepath |-> git.others.files[i]]]
        ELSE <<>>)

IsNew(entry) == StartsWith(entry.status, <<"A">>) \/ StartsWith(entry.status, <<"?">>)

\* detect_new_directories(changed_files)
detect_new_directories(changed_files) ==
    Sorted({Dirname(changed_files[i].filepath) :
               i \in {j \in 1..Len(changed_files) :
                         IsNew(changed_files[j]) /\ Dirname(changed_files[j].filepath) # <<>>}})

\* detect_new_file_types(changed_files)
detect_new_file_types(changed_files, git) ==
    LET tracked == IF git.ls_files.ok THEN git.ls_files.files ELSE <<>>
        existing_extensions == {Splitext1(tracked[i]) : i \in 1..Len(tracked)} \ {<<>>}
    IN  Sorted({Splitext1(changed_files[i].filepath) :
                   i \in {j \in 1..Len(changed_files) : IsNew(changed_files[j])}}
               \ (existing_extensions \cup {<<>>}))

IsDeleted(entry) == StartsWith(entry.status, <<"D">>)

\* detect_deleted_files(changed_files)
detect_deleted_files(changed_files) ==
    LET d == SelectSeq(changed_files, IsDeleted)
    IN  [i \in 1..Len(d) |-> d[i].filepath]

config_patterns == {
    <<"p", "a", "c", "k", "a", "g", "e", ".", "j", "s", "o", "n">>, <<"t", "s", "c", "o", "n", "f", "i", "g", ".", "j", "s", "o", "n">>, <<"p", "y", "p", "r", "o", "j", "e", "c", "t", ".", "t", "o", "m", "l">>, <<"C", "a", "r", "g", "o", ".", "t", "o", "m", "l">>, <<"g", "o", ".", "m", "o", "d">>,
    <<"M", "a", "k", "e", "f", "i", "l", "e">>, <<"D", "o", "c", "k", "e", "r", "f", "i", "l", "e">>, <<"d", "o", "c", "k", "e", "r", "-", "c", "o", "m", "p", "o", "s", "e", ".", "y", "m", "l">>, <<"d", "o", "c", "k", "e", "r", "-", "c", "o", "m", "p", "o", "s", "e", ".", "y", "a", "m", "l">>,
    <<".", "e", "s", "l", "i", "n", "t", "r", "c">>, <<".", "p", "r", "e", "t", "t", "i", "e", "r", "r", "c">>, <<"w", "e", "b", "p", "a", "c", "k", ".", "c", "o", "n", "f", "i", "g">>, <<"v", "i", "t", "e", ".", "c", "o", "n", "f", "i", "g">>, <<"n", "e", "x", "t", ".", "c", "o", "n", "f", "i", "g">>,
    <<"t", "a", "i", "l", "w", "i", "n", "d", ".", "c", "o", "n", "f", "i", "g">>, <<"j", "e", "s", "t", ".", "c", "o", "n", "f", "i", "g">>, <<"v", "i", "t", "e", "s", "t", ".", "c", "o", "n", "f", "i", "g">>, <<".", "e", "n", "v", ".", "e", "x", "a", "m", "p", "l", "e">>,
    <<"r", "e", "q", "u", "i", "r", "e", "m", "e", "n", "t", "s", ".", "t", "x", "t">>, <<"s", "e", "t", "u", "p", ".", "p", "y">>, <<"s", "e", "t", "u", "p", ".", "c", "f", "g">> }

IsConfig(entry) ==
    \E pattern \in config_patterns : StartsWith(Basename(entry.filepath), pattern)

\* detect_config_changes(changed_files)
detect_config_changes(changed_files) ==
    LET c == SelectSeq(changed_files, IsConfig)
    IN  [i \in 1..Len(c) |-> c[i].filepath]

\* type_labels.get(ext, ext); "{ext}" stands for the extension itself
type_labels(ext) ==
    CASE ext = <<".", "r", "s">> -> "Rust" [] ext = <<".", "g", "o">> -> "Go" [] ext = <<".", "p", "y">> -> "Python"
      [] ext = <<".", "t", "s">> -> "TypeScript" [] ext = <<".", "t", "s", "x">> -> "React/TSX"
      [] ext = <<".", "j", "s", "x">> -> "React/JSX" [] ext = <<".", "v", "u", "e">> -> "Vue"
      [] ext = <<".", "s", "v", "e", "l", "t", "e">> -> "Svelte" [] ext = <<".", "r", "b">> -> "Ruby"
      [] ext = <<".", "j", "a", "v", "a">> -> "Java" [] ext = <<".", "k", "t">> -> "Kotlin"
      [] ext = <<".", "s", "w", "i", "f", "t">> -> "Swift" [] ext = <<".", "c">> -> "C" [] ext = <<".", "c", "p", "p">> -> "C++"
      [] ext = <<".", "z", "i", "g">> -> "Zig" [] OTHER -> "{ext}"

\* the suggestions main() collects, in order
Suggestions(changed_files, git) ==
    LET new_dirs == detect_new_directories(changed_files)
        new_types == detect_new_file_types(changed_files, git)
        deleted == detect_deleted_files(changed_files)
        config_changes == detect_config_changes(changed_files)
        total_changed == Len(changed_files)
    IN  [i \in 1..Len(new_dirs) |->
            Line("  - New directory '{d}/' created -> Document {dir_name} architecture in CLAUDE.md",
                 new_dirs[i], "", "", 0)]
        \o [i \in 1..Len(new_types) |->
            Line("  - New file type '{ext}' ({label}) introduced -> Update stack info in CLAUDE.md",
                 new_types[i], type_labels(new_types[i]), "", 0)]
        \o (IF Len(deleted) <= 3
            THEN [i \in 1..Len(deleted) |->
                     Line("  - '{f}' deleted -> Check if removed feature needs doc cleanup",
                          deleted[i], "", "", 0)]
            ELSE <<Line("  - {len(deleted)} files deleted -> Review docs for removed features",
                        <<>>, "", "", Len(deleted))>>)
        \o [i \in 1..Len(config_changes) |->
            Line("  - {basename} modified -> Update project dependencies/config section",
                 Basename(config_changes[i]), "", "", 0)]
        \o (IF total_changed > 10
            THEN <<Line("  - {total_changed} files changed -> Consider running /project-starter:save-session-learnings",
                        <<>>, "", "", total_changed)>>
            ELSE <<>>)

\* main() of suggest-doc-updates.py: the payload is consumed and unused, the
\* suggestions go to standard error, every path ends in sys.exit(0)
suggest_doc_updates_main(ev, git) ==
    LET changed_files == get_changed_files(git)
        suggestions == Suggestions(changed_files, git)
    IN  IF changed_files = <<>> \/ suggestions = <<>> THEN SilentAllow
        ELSE Result(<<>>, <<>>,
                    <<TextLine(""), TextLine("Documentation update suggested:")>>
                    \o suggestions \o <<TextLine("")>>, 0)

GitFailed == [ok |-> FALSE, files |-> <<>>]
GitOutput(files) == [ok |-> TRUE, files |-> files]
Changed(status, filepath) == [status |-> status, filepath |-> filepath]

\* the repository states the hook is run in
GitStates == {
    \* git is absent, or this is no repository
    [name_status |-> GitFailed, others |-> GitFailed, ls_files |-> GitFailed],
    \* a clean work tree
    [name_status |-> GitOutput(<<>>), others |-> GitOutput(<<>>),
     ls_files |-> GitOutput(<<<<"s", "r", "c", "/", "m", "a", "i", "n", ".", "p", "y">>>>)],
    \* an edit of a tracked source file
    [name_status |-> GitOutput(<<Changed(<<"M">>, <<"s", "r", "c", "/", "m", "a", "i", "n", ".", "p", "y">>)>>), others |-> GitOutput(<<>>),
     ls_files |-> GitOutput(<<<<"s", "r", "c", "/", "m", "a", "i", "n", ".", "p", "y">>>>)],
    \* new files of new types in new directories, tracked and untracked
    [name_status |-> GitOutput(<<Changed(<<"A">>, <<"l", "i", "b", "/", "c", "o", "r", "e", "/", "m", "a", "i", "n", ".", "r", "s">>), Changed(<<"A">>, <<"a", "p", "p", "/", "x", ".", "p", "y">>)>>),
     others |-> GitOutput(<<<<"a", "p", "p", "/", "y", ".", "x", "y", "z">>, <<"t", "o", "p", ".", "g", "o">>>>),
     ls_files |-> GitOutput(<<<<"s", "r", "c", "/", "m", "a", "i", "n", ".", "p", "y">>, <<"M", "a", "k", "e", "f", "i", "l", "e">>>>)],
    \* deletions and configuration changes
    [name_status |-> GitOutput(<<Changed(<<"D">>, <<"o", "l", "d", ".", "p", "y">>), Changed(<<"M">>, <<"p", "a", "c", "k", "a", "g", "e", ".", "j", "s", "o", "n">>),
                                 Changed(<<"M">>, <<"w", "e", "b", "/", "w", "e", "b", "p", "a", "c", "k", ".", "c", "o", "n", "f", "i", "g", ".", "j", "s">>),
                                 Changed(<<"D">>, <<"s", "e", "t", "u", "p", ".", "p", "y">>)>>),
     others |-> GitFailed,
     ls_files |-> GitOutput(<<<<"s", "r", "c", "/", "m", "a", "i", "n", ".", "p", "y">>>>)],
    \* more than three deletions
    [name_status |-> GitOutput([i \in 1..4 |-> Changed(<<"D">>, <<"s", "r", "c", "/", "o", "l", "d">> \o <<DigitChars[i]>> \o <<".", "p", "y">>)]),
     others |-> GitOutput(<<>>),
     ls_files |-> GitFailed],
    \* a large refactor: eleven files modified
    [name_status |-> GitOutput([i \in 1..11 |-> Changed(<<"M">>, <<"s", "r", "c", "/", "m">> \o Rep("x", i) \o <<".", "p", "y">>)]),
     others |-> GitOutput(<<>>),
     ls_files |-> GitOutput(<<<<"s", "r", "c", "/", "m", "a", "i", "n", ".", "p", "y">>>>)] }

-----------------------------------------------------------------------------
(* track-metrics.py                                                        *)
(*                                                                         *)
(* The environment is [diff_stat, log, now, write_ok]: diff_stat and log   *)
(* are the (success, output) pairs run_command returns for `git diff       *)
(* --stat HEAD` and `git log --oneline -1`; the output of diff_stat is its *)
(* last line, a sequence of comma-separated parts, each a sequence of      *)
(* words; now is the clock reading; write_ok is False when makedirs, open  *)
(* or write raises.                                                        *)

\* int(word) succeeds: the word is a run of decimal digits
IsInt(word) == word # <<>> /\ \A i \in 1..Len(word) : word[i] \in Range(DigitChars)

DigitValue(c) == (CHOOSE i \in 1..10 : DigitChars[i] = c) - 1

\* int(word)
RECURSIVE IntOf(_)
IntOf(word) ==
    IF word = <<>> THEN 0
    ELSE 10 * IntOf(SubSeq(word, 1, Len(word) - 1)) + DigitValue(word[Len(word)])

\* "file" in part and "changed" in part
IsSummaryPart(part) ==
    /\ \E i \in 1..Len(part) : Contains(part[i], <<"f", "i", "l", "e">>)
    /\ \E i \in 1..Len(part) : Contains(part[i], <<"c", "h", "a", "n", "g", "e", "d">>)

\* get_files_changed()
get_files_changed(env) ==
    IF ~env.diff_stat.ok \/ env.diff_stat.output = <<>> THEN 0
    ELSE LET parts == env.diff_stat.output
             I == {i \in 1..Len(parts) : IsSummaryPart(parts[i])}
         IN  IF I = {} THEN 0
             ELSE LET part == parts[CHOOSE i \in I : \A j \in I : i <= j]
                  IN  IF IsInt(part[1]) THEN IntOf(part[1]) ELSE 0

\* get_latest_commit()
get_latest_commit(env) ==
    IF env.log.ok /\ env.log.output # <<>> THEN env.log.output ELSE <<>>

\* the entry main() builds; commit is None for an empty summary
MetricsEntry(env) ==
    LET latest_commit == get_latest_commit(env)
    IN  [timestamp |-> env.now,
         files_changed |-> get_files_changed(env),
         commit |-> IF latest_commit # <<>> THEN Str(latest_commit) ELSE Null,
         duration_hint |-> "completed"]

\* WriteCalls, were the text and the newline handed to the operating system in
\* two write calls (an unbuffered file, or a flush between the two)
WriteCallsUnbuffered(entry) ==
    <<[json |-> <<entry>>, newline |-> FALSE], [json |-> <<>>, newline |-> TRUE]>>

\* the write calls that `with open(metrics_file, "a") as f:
\* f.write(json.dumps(entry) + "\n")` issues: f is buffered, so the one str is
\* flushed when the with block closes f, in one call.  A call is
\* [json, newline]: the JSON texts it carries and whether "\n" ends it.
WriteCalls(entry) == <<[json |-> <<entry>>, newline |-> TRUE]>>

\* the file after the with block of one process running alone; the file is the
\* sequence of the write calls that reached it
AppendLine(file, entry) == file \o WriteCalls(entry)

\* main() of track-metrics.py: the payload is read and unused, nothing is
\* printed, every path ends in sys.exit(0)
track_metrics_main(ev, env) == SilentAllow

\* the metrics file after main()
MetricsFileAfter(file, env) ==
    IF env.write_ok THEN AppendLine(file, MetricsEntry(env)) ELSE file

CommandFailed == [ok |-> FALSE, output |-> <<>>]
CommandOutput(output) == [ok |-> TRUE, output |-> output]

DiffStatOutcomes == {
    CommandFailed,
    CommandOutput(<<>>),
    CommandOutput(<< <<<<"3">>, <<"f", "i", "l", "e", "s">>, <<"c", "h", "a", "n", "g", "e", "d">>>>, <<<<"1", "0">>, <<"i", "n", "s", "e", "r", "t", "i", "o", "n", "s", "(", "+", ")">>>>,
                     <<<<"2">>, <<"d", "e", "l", "e", "t", "i", "o", "n", "s", "(", "-", ")">>>> >>),
    CommandOutput(<< <<<<"1">>, <<"f", "i", "l", "e">>, <<"c", "h", "a", "n", "g", "e", "d">>>>, <<<<"1">>, <<"i", "n", "s", "e", "r", "t", "i", "o", "n", "(", "+", ")">>>> >>),
    CommandOutput(<< <<<<"1", "2">>, <<"f", "i", "l", "e", "s">>, <<"c", "h", "a", "n", "g", "e", "d">>>> >>),
    CommandOutput(<< <<<<"m", "a", "n", "y">>, <<"f", "i", "l", "e", "s">>, <<"c", "h", "a", "n", "g", "e", "d">>>> >>),
    CommandOutput(<< <<<<"s", "r", "c", "/", "m", "a", "i", "n", ".", "p", "y">>, <<"|">>, <<"2">>, <<"+", "-">>>> >>) }

LogOutcomes == {CommandFailed, CommandOutput(<<>>), CommandOutput(<<"a", "b", "c", "1", "2", "3", "4", " ", "F", "i", "x", " ", "b", "u", "g">>)}

Clock == {"2026-01-01T00:00:00+00:00", "2026-01-01T00:00:01+00:00"}

MetricsEnvs ==
    {[diff_stat |-> d, log |-> l, now |-> t, write_ok |-> w] :
        d \in DiffStatOutcomes, l \in LogOutcomes, t \in Clock, w \in BOOLEAN}

-----------------------------------------------------------------------------
(* The inputs the external caller can hand to a hook                       *)

\* the longest chain of directories in front of a file name
MaxDepth == 2

PathPrefixes == {<<>>, <<".", "/">>, <<"/">>}

DirNames == {<<"s", "r", "c", "/">>, <<"t", "e", "s", "t", "s", "/">>, <<"s", "e", "c", "r", "e", "t", "s", "/">>, <<"p", "r", "o", "d", "u", "c", "t", "i", "o", "n", "/">>}

RECURSIVE DirChains(_)
DirChains(n) ==
    IF n = 0 THEN {<<>>}
    ELSE DirChains(n - 1) \cup {d \o c : d \in DirNames, c \in DirChains(n - 1)}

FileNames == {
    <<".", "e", "n", "v">>, <<".", "e", "n", "v", ".", "l", "o", "c", "a", "l">>, <<".", "e", "n", "v", ".", "p", "r", "o", "d", "u", "c", "t", "i", "o", "n">>,
    <<"p", "a", "c", "k", "a", "g", "e", "-", "l", "o", "c", "k", ".", "j", "s", "o", "n">>, <<"y", "a", "r", "n", ".", "l", "o", "c", "k">>, <<"p", "n", "p", "m", "-", "l", "o", "c", "k", ".", "y", "a", "m", "l">>,
    <<"G", "e", "m", "f", "i", "l", "e", ".", "l", "o", "c", "k">>, <<"p", "o", "e", "t", "r", "y", ".", "l", "o", "c", "k">>, <<"C", "a", "r", "g", "o", ".", "l", "o", "c", "k">>,
    <<".", "e", "n", "v", ".", "e", "x", "a", "m", "p", "l", "e">>, <<"f", "o", "o", ".", "p", "y">>, <<"a", "p", "p", ".", "t", "s">>, <<"A", "p", "p", ".", "T", "S", "X">>, <<"a", "p", "p", ".", "t", "e", "s", "t", ".", "t", "s">>,
    <<"D", "o", "c", "k", "e", "r", "f", "i", "l", "e">>, <<"d", "o", "c", "k", "e", "r", "-", "c", "o", "m", "p", "o", "s", "e", ".", "y", "m", "l">>, <<"R", "E", "A", "D", "M", "E", ".", "m", "d">>, <<"c", "o", "n", "f", "i", "g">> }

\* every prefix, directory chain and file name
SweptPaths == {p \o d \o f : p \in PathPrefixes, d \in DirChains(MaxDepth), f \in FileNames}

\* paths with other directory names and file names
OtherPaths == {
    <<"e", "x", "a", "m", "p", "l", "e", "s", "/", "f", "o", "o", ".", "p", "y">>, <<"s", "r", "c", "/", "e", "x", "a", "m", "p", "l", "e", "s", "/", "f", "o", "o", ".", "p", "y">>, <<"t", "e", "s", "t", "/", "f", "o", "o", ".", "p", "y">>, <<"s", "r", "c", "/", "t", "e", "s", "t", "/", "f", "o", "o", ".", "p", "y">>,
    <<"_", "_", "t", "e", "s", "t", "s", "_", "_", "/", "f", "o", "o", ".", "p", "y">>, <<"s", "r", "c", "/", "_", "_", "t", "e", "s", "t", "s", "_", "_", "/", "f", "o", "o", ".", "p", "y">>, <<"l", "a", "t", "e", "s", "t", "/", "f", "o", "o", ".", "p", "y">>, <<"c", "o", "n", "t", "e", "s", "t", "/", "a", "p", "p", ".", "t", "s">>,
    <<"s", "r", "c", "/", "l", "a", "t", "e", "s", "t", ".", "p", "y">>, <<"s", "r", "c", "/", "c", "o", "u", "n", "t", "e", "r", "e", "x", "a", "m", "p", "l", "e", ".", "p", "y">>, <<"s", "r", "c", "/", "i", "n", "s", "p", "e", "c", "t", "o", "r", ".", "p", "y">>,
    <<"c", "o", "u", "n", "t", "e", "r", "e", "x", "a", "m", "p", "l", "e", "/", "f", "o", "o", ".", "p", "y">>, <<"i", "n", "s", "p", "e", "c", "t", "o", "r", "/", "f", "o", "o", ".", "p", "y">>,
    <<".", "g", "i", "t", "/", "c", "o", "n", "f", "i", "g">>, <<".", "/", ".", "g", "i", "t", "/", "c", "o", "n", "f", "i", "g">>, <<"/", ".", "g", "i", "t", "/", "c", "o", "n", "f", "i", "g">>, <<"r", "e", "p", "o", "/", ".", "g", "i", "t", "/", "c", "o", "n", "f", "i", "g">>,
    <<"a", "p", "p", "/", "c", "r", "e", "d", "e", "n", "t", "i", "a", "l", "s", "/", "k", "e", "y", ".", "p", "e", "m">>, <<"c", "r", "e", "d", "e", "n", "t", "i", "a", "l", "s", "/", "k", "e", "y", ".", "p", "e", "m">>, <<"s", "e", "c", "r", "e", "t", "s", "/", "k", "e", "y", ".", "p", "e", "m">>,
    <<".", "g", "i", "t", "h", "u", "b", "/", "w", "o", "r", "k", "f", "l", "o", "w", "s", "/", "c", "i", ".", "y", "m", "l">>, <<"d", "e", "p", "l", "o", "y", "/", "p", "r", "o", "d", "u", "c", "t", "i", "o", "n", "/", ".", "e", "n", "v">>, <<".", ".", "e", "n", "v">>, <<".">>, <<".", "/">> }

\* the paths every content is tried with
CorePaths == {
    <<"s", "r", "c", "/", "a", "p", "p", ".", "t", "s">>, <<"m", "a", "i", "n", ".", "p", "y">>, <<"R", "E", "A", "D", "M", "E", ".", "m", "d">>, <<"t", "e", "s", "t", "s", "/", "f", "o", "o", ".", "p", "y">>, <<"s", "r", "c", "/", "t", "e", "s", "t", "s", "/", "f", "o", "o", ".", "p", "y">>,
    <<"e", "x", "a", "m", "p", "l", "e", "s", "/", "f", "o", "o", ".", "p", "y">>, <<"s", "r", "c", "/", "l", "a", "t", "e", "s", "t", ".", "p", "y">>, <<".", "e", "n", "v", ".", "e", "x", "a", "m", "p", "l", "e">>, <<"y", "a", "r", "n", ".", "l", "o", "c", "k">>,
    <<".", "e", "n", "v", ".", "p", "r", "o", "d", "u", "c", "t", "i", "o", "n">>, <<"s", "r", "c", "/", "s", "e", "c", "r", "e", "t", "s", "/", "D", "o", "c", "k", "e", "r", "f", "i", "l", "e">> }

ApiKeyText == <<"a", "p", "i", "_", "k", "e", "y", ":", " ", "\"", "a", "b", "c", "d", "e", "f", "g", "h", "i", "j", "k", "l", "m", "n", "o", "p", "q", "r", "s", "t", "u", "\"">>

SecretTexts == {
    ApiKeyText,
    <<"A", "P", "I", "K", "E", "Y", "=">> \o Rep("Z", 20),
    <<"p", "a", "s", "s", "w", "o", "r", "d", " ", "=", " ", "'", "h", "u", "n", "t", "e", "r", "2", "'">>,
    <<"A", "u", "t", "h", "o", "r", "i", "z", "a", "t", "i", "o", "n", ":", " ", "B", "e", "a", "r", "e", "r", " ">> \o Rep("a", 20),
    <<"g", "h", "p", "_">> \o Rep("a", 36),
    <<"g", "i", "t", "h", "u", "b", "_", "p", "a", "t", "_">> \o Rep("a", 22) \o <<"_">> \o Rep("b", 59),
    <<"s", "k", "-">> \o Rep("a", 48),
    <<"s", "k", "-", "a", "n", "t", "-">> \o Rep("a", 90),
    <<"-", "-", "-", "-", "-", "B", "E", "G", "I", "N", " ", "P", "R", "I", "V", "A", "T", "E", " ", "K", "E", "Y", "-", "-", "-", "-", "-">>,
    <<"-", "-", "-", "-", "-", "B", "E", "G", "I", "N", " ", "R", "S", "A", " ", "P", "R", "I", "V", "A", "T", "E", " ", "K", "E", "Y", "-", "-", "-", "-", "-">>,
    <<"a", "w", "s", "_", "a", "c", "c", "e", "s", "s", "_", "k", "e", "y", "_", "i", "d", " ", "=", " ">> \o Rep("A", 20),
    <<"A", "W", "S", "-", "S", "E", "C", "R", "E", "T", "-", "A", "C", "C", "E", "S", "S", "-", "K", "E", "Y", ":">> \o Rep("a", 40),
    <<"p", "a", "s", "s", "w", "o", "r", "d", " ", "=", " ", "'", "h", "u", "n", "t", "e", "r", "2", "'", " ">> \o ApiKeyText }

MarkerTexts == {
    <<"F", "I", "X", "M", "E">>, <<"H", "A", "C", "K">>, <<"X", "X", "X">>, <<"c", "o", "n", "s", "o", "l", "e", ".", "l", "o", "g", "(", "\"", "h", "i", "\"", ")">>, <<"c", "o", "n", "s", "o", "l", "e", ".", "d", "e", "b", "u", "g", " ", "(", "1", ")">>,
    <<"d", "e", "b", "u", "g", "g", "e", "r">>, <<"b", "r", "e", "a", "k", "p", "o", "i", "n", "t", "(", ")">>, <<"p", "d", "b", ".", "s", "e", "t", "_", "t", "r", "a", "c", "e", "(", ")">>,
    <<"/", "/", " ", "F", "I", "X", "M", "E", ":", " ", "l", "a", "t", "e", "r">>, <<"F", "I", "X", "M", "E", " ", "F", "I", "X", "M", "E">>, <<"d", "e", "b", "u", "g", "g", "e", "r", ";", " ", "X", "X", "X", " ", "H", "A", "C", "K">>,
    <<"X", "X", "X", " ", "c", "o", "n", "s", "o", "l", "e", ".", "l", "o", "g", "(", "1", ")">> }

\* texts that contain a marker or the start of a secret and match no rule
NearMissTexts == {
    <<"x", " ", "=", " ", "1">>, <<"F", "I", "X", "M", "E", "s">>, <<"P", "R", "E", "F", "I", "X", "M", "E">>, <<"F", "I", "X", "M", "E">> \o <<"U+00E9">>, <<"x", "c", "o", "n", "s", "o", "l", "e", ".", "l", "o", "g", "(", "1", ")">>,
    <<"c", "o", "n", "s", "o", "l", "e", ".", "l", "o", "g">>, <<"d", "e", "b", "u", "g", "g", "e", "r", "s">>, <<"a", "p", "i", "_", "k", "e", "y", ":", " ", "\"", "a", "b", "c", "d", "e", "f", "g", "h", "i", "j", "k", "l", "m", "n", "o", "p", "q", "r", "s", "\"">>,
    <<"p", "a", "s", "s", "w", "o", "r", "d", " ", "=", " ", "h", "u", "n", "t", "e", "r", "2">>, <<"s", "k", "-">> \o Rep("a", 47), <<"U+00E9">> }

\* a marker and a secret in one text
RichText == <<"F", "I", "X", "M", "E", " ">> \o ApiKeyText

Texts == SecretTexts \cup MarkerTexts \cup NearMissTexts \cup {RichText}

\* contents around the size limit: a short text followed by spaces
LargeContents == {
    Padded(t, MAX_CONTENT_SIZE + d) :
        t \in {<<>>, <<"x">>, <<"U+00E9">>, <<"F", "I", "X", "M", "E">>}, d \in {-2, -1, 0, 1, 1024, MAX_CONTENT_SIZE} }

Contents == {Str(t) : t \in Texts} \cup LargeContents

\* the contents every path is tried with
CoreContents == {Str(RichText)}

\* the (content, new_string) pairs of an Edit or Write event
ContentPairs ==
    {<<c, Absent>> : c \in Contents}
    \cup {<<Absent, c>> : c \in {Str(ApiKeyText), Str(<<"F", "I", "X", "M", "E">>), Str(<<"x", " ", "=", " ", "1">>)}}
    \cup {<<EmptyStr, Str(RichText)>>, <<Null, Str(RichText)>>,
          <<Str(<<"x", " ", "=", " ", "1">>), Str(RichText)>>, <<Str(RichText), Str(<<"x", " ", "=", " ", "1">>)>>,
          <<Absent, Absent>>, <<EmptyStr, Absent>>, <<EmptyStr, EmptyStr>>,
          <<Num, Absent>>, <<Null, Null>>}

\* standard input that is not JSON, or JSON of the wrong shape
BadInputs ==
    {Event(FALSE, "none", "absent", Absent, Absent, Absent)}
    \cup {Event(TRUE, top, "absent", Absent, Absent, Absent) :
             top \in {"list", "str", "num", "null", "bool"}}
    \cup {Event(TRUE, "object", ti, Absent, Absent, Absent) :
             ti \in {"list", "str", "num", "null", "bool"}}

\* an object with no tool_input key (the payload of a Stop event)
StopEvent == Event(TRUE, "object", "absent", Absent, Absent, Absent)

\* Edit and Write events
EditEvents ==
    {Event(TRUE, "object", "object", Str(p), c, Absent) :
        p \in SweptPaths \cup OtherPaths, c \in CoreContents}
    \cup {Event(TRUE, "object", "object", Str(p), cp[1], cp[2]) :
        p \in CorePaths, cp \in ContentPairs}
    \cup {Event(TRUE, "object", "object", fp, cp[1], cp[2]) :
        fp \in {Absent, EmptyStr, Null, Num}, cp \in ContentPairs}

Events == BadInputs \cup {StopEvent} \cup EditEvents

\* what a Stop hook can be handed: its payload is consumed and never inspected
StopInputs == BadInputs \cup {StopEvent}

-----------------------------------------------------------------------------
(* The state machine                                                       *)

NoEvent == Event(FALSE, "none", "absent", Absent, Absent, Absent)

\* no external call was made
NoExternal == [tsconfig |-> "unused", tsc |-> "unused", tsc_stdout_len |-> 0]

Init ==
    /\ pc = "idle"
    /\ hook = "none"
    /\ stdin = NoEvent
    /\ external = NoExternal
    /\ issues = <<>>
    /\ stdout = <<>>
    /\ stderr = <<>>
    /\ exit_status = 0
    /\ metrics_file = <<>>
    /\ writers = <<>>

\* the process of `name` has read ev, run to its exit and left result r
Ran(name, ev, ext, r) ==
    /\ pc' = "exited"
    /\ hook' = name
    /\ stdin' = ev
    /\ external' = ext
    /\ issues' = r.issues
    /\ stdout' = r.stdout
    /\ stderr' = r.stderr
    /\ exit_status' = r.exit_status
    /\ UNCHANGED writers

SecurityCheck ==
    /\ pc = "idle"
    /\ \E ev \in Events :
        /\ Ran("security-check", ev, NoExternal, security_check_main(ev))
        /\ UNCHANGED metrics_file

ProtectFiles ==
    /\ pc = "idle"
    /\ \E ev \in Events :
        /\ Ran("protect-files", ev, NoExternal, protect_files_main(ev))
        /\ UNCHANGED metrics_file

PreCommitCheck ==
    /\ pc = "idle"
    /\ \E ev \in Events :
        /\ Ran("pre-commit-check", ev, NoExternal, pre_commit_check_main(ev))
        /\ UNCHANGED metrics_file

TypescriptCheck ==
    /\ pc = "idle"
    /\ \E ev \in Events, fs \in TscOutcomes :
        /\ Ran("typescript-check", ev, TypescriptConsulted(ev, fs), typescript_check_main(ev, fs))
        /\ UNCHANGED metrics_file

SuggestDocUpdates ==
    /\ pc = "idle"
    /\ \E ev \in StopInputs, git \in GitStates :
        /\ Ran("suggest-doc-updates", ev, git, suggest_doc_updates_main(ev, git))
        /\ UNCHANGED metrics_file

TrackMetrics ==
    /\ pc = "idle"
    /\ \E ev \in StopInputs, env \in MetricsEnvs :
        /\ Ran("track-metrics", ev, env, track_metrics_main(ev, env))
        /\ metrics_file' = MetricsFileAfter(metrics_file, env)

Next ==
    \/ SecurityCheck
    \/ ProtectFiles
    \/ PreCommitCheck
    \/ TypescriptCheck
    \/ SuggestDocUpdates
    \/ TrackMetrics

Spec == Init /\ [][Next]_vars

-----------------------------------------------------------------------------
(* track-metrics.py, several processes side by side                        *)
(*                                                                         *)
(* Every Stop event starts one process; nothing orders the processes of    *)
(* sessions that end together.  A process takes three kinds of step: it    *)
(* builds its entry and opens the file; it issues a write call, which the  *)
(* operating system appends at the end of the file as a whole (O_APPEND);  *)
(* it exits.  writers[w] is [pc, entry, calls]: entry holds the entry once *)
(* built, calls counts the write calls issued.                             *)

\* the number of processes that run side by side
MaxWriters == 2

Writers == 1..MaxWriters

\* the environments of the concurrent runs: git fails or answers, the clock
\* reads one of two values, the file can be written or not
WriterEnvs ==
    {env \in MetricsEnvs :
        /\ env.diff_stat.ok => get_files_changed(env) = 3
        /\ env.log.ok => env.log.output # <<>>}

\* a record that an earlier session wrote
PriorEntry ==
    [timestamp |-> "2025-12-31T23:59:59+00:00", files_changed |-> 1,
     commit |-> Null, duration_hint |-> "completed"]

\* the file before the processes start: absent (or empty), or one record long
PriorFiles == {<<>>, WriteCalls(PriorEntry)}

MetricsInit ==
    /\ pc = "idle"
    /\ hook = "none"
    /\ stdin = NoEvent
    /\ external = NoExternal
    /\ issues = <<>>
    /\ stdout = <<>>
    /\ stderr = <<>>
    /\ exit_status = 0
    /\ metrics_file \in PriorFiles
    /\ writers = [w \in Writers |-> [pc |-> "start", entry |-> <<>>, calls |-> 0]]

\* main() up to open(metrics_file, "a"): the entry is built; makedirs or open
\* raises when the file cannot be written
MetricsBuild(w) ==
    /\ writers[w].pc = "start"
    /\ \E env \in WriterEnvs :
          writers' = [writers EXCEPT ![w] =
                         [pc |-> IF env.write_ok THEN "opened" ELSE "raised",
                          entry |-> <<MetricsEntry(env)>>,
                          calls |-> 0]]
    /\ UNCHANGED <<pc, hook, stdin, external, issues, stdout, stderr, exit_status,
                   metrics_file>>

\* the next write call of the with block of process w reaches the file
MetricsWrite(w) ==
    /\ writers[w].pc = "opened"
    /\ writers[w].calls < Len(WriteCalls(writers[w].entry[1]))
    /\ metrics_file' =
          Append(metrics_file, WriteCalls(writers[w].entry[1])[writers[w].calls + 1])
    /\ writers' = [writers EXCEPT ![w].calls = @ + 1]
    /\ UNCHANGED <<pc, hook, stdin, external, issues, stdout, stderr, exit_status>>

\* sys.exit(0), after the with block or after `except Exception: pass`
MetricsExit(w) ==
    /\ \/ /\ writers[w].pc = "opened"
          /\ writers[w].calls = Len(WriteCalls(writers[w].entry[1]))
       \/ writers[w].pc = "raised"
    /\ writers' = [writers EXCEPT ![w].pc = "exited"]
    /\ UNCHANGED <<pc, hook, stdin, external, issues, stdout, stderr, exit_status,
                   metrics_file>>

NextMetrics ==
    \E w \in Writers : MetricsBuild(w) \/ MetricsWrite(w) \/ MetricsExit(w)

SpecMetrics == MetricsInit /\ [][NextMetrics]_vars

-----------------------------------------------------------------------------
(* Properties                                                              *)

\* the event is an object whose tool_input is an object
WellFormed == stdin.json /\ stdin.top = "object" /\ stdin.tool_input = "object"

\* the values main reads from the event
PathRead == GetOrEmpty(stdin.file_path)
ContentRead == ScannedContent(stdin)

\* the path is a non-empty string
PathGiven == PathRead.t = "str" /\ PathRead.v # <<>>

\* the content is a non-empty string
ContentGiven == ContentRead.t = "str" /\ (ContentRead.v # <<>> \/ ContentRead.pad > 0)

\* the rules of a rule list whose pattern matches the text somewhere
Matching(rules, c) == {k \in 1..Len(rules) : ReSearch(rules[k].re, Text(c))}

HasSecret(c) == c.t = "str" /\ Matching(SECRET_PATTERNS, c) # {}
HasMarker(c) == c.t = "str" /\ (Matching(DEBUG_PATTERNS, c) # {} \/ Matching(TEMP_MARKERS, c) # {})

\* a line of standard output carries this label, and this label with this remediation
PrintsLabel(label) == \E i \in 1..Len(stdout) : stdout[i].label = label
PrintsFinding(rule) ==
    \E i \in 1..Len(stdout) :
        stdout[i].label = rule.label /\ stdout[i].remediation = rule.remediation

\* the lines that announce a block
IsBlockedLine(l) ==
    l.text \in {"BLOCKED: {file_path}",
                "U+1F6AB BLOCKED - Security issue detected in {file_path}:",
                "This edit has been BLOCKED to prevent committing secrets."}

PrintsBlocked == \E i \in 1..Len(stdout) : stdout[i].text = "BLOCKED: {file_path}"
PrintsWarning ==
    \E i \in 1..Len(stdout) : stdout[i].text = "U+26A0 WARNING: Editing sensitive file: {file_path}"

\* the exemption of security-check.py: a skip-file basename, or "test" or "spec"
\* anywhere in the lower-cased path
SecurityExempt(p) ==
    \/ Basename(p) \in {<<".", "e", "n", "v", ".", "e", "x", "a", "m", "p", "l", "e">>, <<".", "e", "n", "v", ".", "t", "e", "m", "p", "l", "a", "t", "e">>, <<".", "e", "n", "v", ".", "s", "a", "m", "p", "l", "e">>,
                        <<"p", "a", "c", "k", "a", "g", "e", "-", "l", "o", "c", "k", ".", "j", "s", "o", "n">>, <<"y", "a", "r", "n", ".", "l", "o", "c", "k">>, <<"p", "n", "p", "m", "-", "l", "o", "c", "k", ".", "y", "a", "m", "l">>}
    \/ Contains(Lower(p), <<"t", "e", "s", "t">>)
    \/ Contains(Lower(p), <<"s", "p", "e", "c">>)

\* C1: when standard input is not JSON, or is JSON whose top level or whose
\* tool_input is not an object, every hook exits with status 0 and prints no
\* BLOCKED line.
C1_FailOpenOnBadInput ==
    LET BadInput ==
            \/ ~stdin.json
            \/ stdin.top # "object"
            \/ stdin.tool_input \in {"list", "str", "num", "null", "bool"}
    IN  pc = "exited" /\ BadInput =>
            /\ exit_status = 0
            /\ \A i \in 1..Len(stdout) : ~IsBlockedLine(stdout[i])
            /\ \A i \in 1..Len(stderr) : ~IsBlockedLine(stderr[i])

C1_Witness ==
    /\ pc = "exited" /\ hook = "security-check"
    /\ stdin.json /\ stdin.top = "object" /\ stdin.tool_input = "str"
    /\ exit_status = 0 /\ stdout = <<>>

\* C2: protect-files blocks every path whose basename is a protected name, with
\* any directory prefix or none: it prints a line beginning "BLOCKED:" and
\* exits with status 2.
C2_ProtectedNamesBlocked ==
    LET ProtectedNames == {
            <<".", "e", "n", "v">>, <<".", "e", "n", "v", ".", "l", "o", "c", "a", "l">>, <<".", "e", "n", "v", ".", "p", "r", "o", "d", "u", "c", "t", "i", "o", "n">>, <<"p", "a", "c", "k", "a", "g", "e", "-", "l", "o", "c", "k", ".", "j", "s", "o", "n">>,
            <<"y", "a", "r", "n", ".", "l", "o", "c", "k">>, <<"p", "n", "p", "m", "-", "l", "o", "c", "k", ".", "y", "a", "m", "l">>, <<"G", "e", "m", "f", "i", "l", "e", ".", "l", "o", "c", "k">>, <<"p", "o", "e", "t", "r", "y", ".", "l", "o", "c", "k">>,
            <<"C", "a", "r", "g", "o", ".", "l", "o", "c", "k">> }
    IN  /\ pc = "exited" /\ hook = "protect-files" /\ WellFormed
        /\ PathGiven /\ Basename(PathRead.v) \in ProtectedNames
        => exit_status = 2 /\ PrintsBlocked

\* C3: security-check blocks every event whose content (content, or new_string
\* when content is empty) matches a secret pattern: it prints each finding with
\* its remediation and exits with status 2.  Stated for the files the
\* classifier does not exempt, an absent path counting as not exempt.
C3_SecretsBlocked ==
    /\ pc = "exited" /\ hook = "security-check" /\ WellFormed
    /\ HasSecret(ContentRead)
    /\ PathRead.t = "str" /\ ~SecurityExempt(PathRead.v)
    => /\ exit_status = 2
       /\ \A k \in Matching(SECRET_PATTERNS, ContentRead) : PrintsFinding(SECRET_PATTERNS[k])

\* the outcome WARN of pre-commit-check.py: exit status 0 and a printed line with
\* the label of each debug and marker rule that matches the content
MarkersWarned ==
    /\ exit_status = 0
    /\ \A k \in Matching(DEBUG_PATTERNS, ContentRead) : PrintsLabel(DEBUG_PATTERNS[k].label)
    /\ \A k \in Matching(TEMP_MARKERS, ContentRead) : PrintsLabel(TEMP_MARKERS[k].label)

\* C4: for every event whose content holds a debug statement or a temporary
\* marker and no secret (here: whose file_path is a string or absent), the
\* quality classifier exits with status 0 and prints a line with the label of
\* each rule that matches.
C4_MarkersWarnAllEvents ==
    /\ pc = "exited" /\ hook = "pre-commit-check" /\ WellFormed
    /\ HasMarker(ContentRead) /\ ~HasSecret(ContentRead)
    /\ PathRead.t = "str"
    => MarkersWarned

\* C4, for the events whose file_path is absent, null, empty or a string that
\* should_skip does not exempt: the quality classifier exits with status 0 and
\* prints a line with the label of each debug and marker rule that matches.
C4_MarkersWarn ==
    /\ pc = "exited" /\ hook = "pre-commit-check" /\ WellFormed
    /\ HasMarker(ContentRead) /\ ~HasSecret(ContentRead)
    /\ \/ PathRead.t = "null"
       \/ PathRead.t = "str" /\ ~should_skip(PathRead.v)
    => MarkersWarned

C4_Witness ==
    /\ pc = "exited" /\ hook = "pre-commit-check"
    /\ stdin.file_path = Str(<<"s", "r", "c", "/", "a", "p", "p", ".", "t", "s">>)
    /\ stdin.content = Str(<<"c", "o", "n", "s", "o", "l", "e", ".", "l", "o", "g", "(", "\"", "h", "i", "\"", ")">>)
    /\ PrintsLabel("console.log")
    /\ exit_status = 0

\* C5: when check_content runs on content that matches no debug or marker rule,
\* it produces a "Large file content" finding if and only if the UTF-8 byte
\* length of the content is greater than 512000; the finding reports
\* floor(byte length / 1024) KB and the limit 500 KB, and the process exits
\* with status 0.
IsSizeFinding(l) ==
    l.text = "Large file content: {size_kb}KB (limit: {limit}KB) -> Consider splitting into smaller modules or extracting data"

C5_SizeRule ==
    /\ pc = "exited" /\ hook = "pre-commit-check" /\ WellFormed
    /\ ContentGiven /\ ~HasMarker(ContentRead)
    /\ \/ PathRead.t = "null"
       \/ PathRead.t = "str" /\ ~should_skip(PathRead.v)
    => LET found == {i \in 1..Len(issues) : IsSizeFinding(issues[i])}
       IN  /\ (found # {}) <=> (ByteLen(ContentRead) > 512000)
           /\ Cardinality(found) <= 1
           /\ \A i \in found : /\ issues[i].n = ByteLen(ContentRead) \div 1024
                               /\ issues[i].limit = 500
           /\ \A i \in found : \E j \in 1..Len(stdout) : stdout[j] = IssueLine(issues[i])
           /\ exit_status = 0

C5_Witness ==
    /\ pc = "exited" /\ hook = "pre-commit-check"
    /\ ByteLen(ContentRead) = 512001
    /\ Len(issues) = 1 /\ IsSizeFinding(issues[1]) /\ issues[1].n = 500

\* C6: a file that the eligibility filter exempts produces nothing, whatever
\* its content: no finding, no output, exit status 0.
C6_ExemptProducesNothing ==
    /\ pc = "exited" /\ WellFormed /\ PathGiven
    /\ \/ hook = "pre-commit-check" /\ should_skip(PathRead.v)
       \/ hook = "security-check" /\ SecurityExempt(PathRead.v)
    => issues = <<>> /\ stdout = <<>> /\ stderr = <<>> /\ exit_status = 0

C6_Witness ==
    /\ pc = "exited" /\ hook = "security-check"
    /\ stdin.file_path = Str(<<"t", "e", "s", "t", "s", "/", "f", "o", "o", ".", "p", "y">>)
    /\ HasSecret(ContentRead)
    /\ stdout = <<>> /\ exit_status = 0

\* C7: protect-files blocks every path that matches a protected pattern, and
\* prints no WARNING line for it, whatever warn patterns the path matches too.
C7_BlockBeforeWarn ==
    /\ pc = "exited" /\ hook = "protect-files" /\ WellFormed /\ PathGiven
    /\ matches_pattern(PathRead.v, PROTECTED_PATTERNS) # <<>>
    => exit_status = 2 /\ PrintsBlocked /\ ~PrintsWarning

C7_Witness ==
    /\ pc = "exited" /\ hook = "protect-files"
    /\ stdin.file_path = Str(<<"d", "e", "p", "l", "o", "y", "/", "p", "r", "o", "d", "u", "c", "t", "i", "o", "n", "/", ".", "e", "n", "v">>)
    /\ matches_pattern(PathRead.v, WARN_PATTERNS) # <<>>
    /\ exit_status = 2 /\ PrintsBlocked

\* C8: the exit status is 0 or 2; it is 2 only when security-check matched a
\* secret pattern in the non-empty content of a non-empty path it does not
\* exempt, or when protect-files matched the non-empty path against a protected
\* pattern; the other four hooks exit with 0 whatever their external calls do.
C8_OnlyMatchBlocks ==
    pc = "exited" =>
        /\ exit_status \in {0, 2}
        /\ exit_status = 2 =>
              \/ /\ hook = "security-check" /\ WellFormed /\ PathGiven /\ ContentGiven
                 /\ ~SecurityExempt(PathRead.v) /\ HasSecret(ContentRead)
              \/ /\ hook = "protect-files" /\ WellFormed /\ PathGiven
                 /\ matches_pattern(PathRead.v, PROTECTED_PATTERNS) # <<>>
        /\ hook \in {"pre-commit-check", "typescript-check", "suggest-doc-updates",
                     "track-metrics"} => exit_status = 0

C8_Witness ==
    /\ pc = "exited" /\ hook = "typescript-check"
    /\ external.tsc = "exit_nonzero" /\ stdout # <<>>
    /\ exit_status = 0

\* C9: in security-check and in pre-commit-check an event whose file_path is
\* absent or empty is not exempt: its content is evaluated against the rule set,
\* and a secret in it is reported and blocked.
C9_AbsentPathScanned ==
    /\ pc = "exited" /\ WellFormed /\ ContentGiven
    /\ stdin.file_path \in {Absent, EmptyStr}
    => /\ hook = "security-check" =>
             /\ Len(issues) = Cardinality(Matching(SECRET_PATTERNS, ContentRead))
             /\ HasSecret(ContentRead) => exit_status = 2
       /\ hook = "pre-commit-check" => (HasMarker(ContentRead) => issues # <<>>)

\* C10: in each content classifier a path is exempt when one of its directory
\* segments is exactly tests, test, __tests__ or examples, the first segment of
\* a relative path included; and a path none of whose segments is one of these
\* is not exempt on account of a segment that only contains such a word.
C10_SegmentExemption ==
    LET ExemptSegments == {<<"t", "e", "s", "t", "s">>, <<"t", "e", "s", "t">>, <<"_", "_", "t", "e", "s", "t", "s", "_", "_">>, <<"e", "x", "a", "m", "p", "l", "e", "s">>}
        \* one of the directory segments of p is an exempt segment
        HasExemptSegment(p) ==
            \E d \in ExemptSegments :
                Contains(<<"/">> \o SubSeq(p, 1, LastIndexOf(p, "/")),
                         <<"/">> \o d \o <<"/">>)
        \* the other rules of the eligibility filter: extension, file name, allow-list
        OtherwiseExempt(p) ==
            \/ Lower(Splitext1(p)) \in SKIP_EXTENSIONS
            \/ Contains(Lower(Basename(p)), <<"t", "e", "s", "t">>)
            \/ Contains(Lower(Basename(p)), <<"s", "p", "e", "c">>)
            \/ Basename(p) \in SKIP_FILES
    IN  /\ pc = "exited" /\ hook \in {"security-check", "pre-commit-check"}
        /\ WellFormed /\ PathGiven /\ ContentGiven
        => /\ HasExemptSegment(PathRead.v) =>
                 issues = <<>> /\ stdout = <<>> /\ exit_status = 0
           /\ ~HasExemptSegment(PathRead.v) /\ ~OtherwiseExempt(PathRead.v) =>
                 /\ hook = "security-check" /\ HasSecret(ContentRead) => issues # <<>>
                 /\ hook = "pre-commit-check" /\ HasMarker(ContentRead) => issues # <<>>

\* the JSON texts that a run of write calls carries
RECURSIVE JsonOf(_)
JsonOf(calls) == IF calls = <<>> THEN <<>> ELSE Head(calls).json \o JsonOf(Tail(calls))

\* the lines of the file as a reader of JSON Lines sees them: each line is the
\* JSON texts in front of one "\n"
RECURSIVE Lines(_)
Lines(file) ==
    LET I == {i \in 1..Len(file) : file[i].newline}
    IN  IF I = {} THEN <<>>
        ELSE LET n == CHOOSE i \in I : \A j \in I : i <= j
             IN  <<JsonOf(SubSeq(file, 1, n))>> \o Lines(SubSeq(file, n + 1, Len(file)))

\* what follows the last "\n" of the file
Unterminated(file) ==
    LET I == {i \in 1..Len(file) : file[i].newline}
    IN  IF I = {} THEN JsonOf(file)
        ELSE JsonOf(SubSeq(file, (CHOOSE i \in I : \A j \in I : j <= i) + 1, Len(file)))

\* the number of lines that hold exactly the record e
Count(lines, e) == Cardinality({i \in 1..Len(lines) : lines[i] = <<e>>})

\* the file holds the lines of prior, then exactly one line for each process of
\* the set W, each line the entry of its process and nothing else
HoldsOneRecordEach(prior, W) ==
    LET lines == Lines(metrics_file)
        before == Lines(prior)
        E == {writers[w].entry[1] : w \in W} \cup {PriorEntry}
    IN  /\ Len(prior) <= Len(metrics_file)
        /\ SubSeq(metrics_file, 1, Len(prior)) = prior
        /\ Len(lines) = Len(before) + Cardinality(W)
        /\ \A i \in 1..Len(lines) : Len(lines[i]) = 1
        /\ \A e \in E :
              Count(lines, e) = Count(before, e)
                                + Cardinality({w \in W : writers[w].entry[1] = e})

\* the processes whose with block has run to its end
Wrote ==
    {w \in Writers :
        /\ writers[w].pc \in {"opened", "exited"}
        /\ writers[w].calls = Len(WriteCalls(writers[w].entry[1]))}

\* the processes inside their with block
Writing ==
    {w \in Writers :
        /\ writers[w].pc = "opened"
        /\ 0 < writers[w].calls
        /\ writers[w].calls < Len(WriteCalls(writers[w].entry[1]))}

C12_ProtectedDirsBlocked ==
    LET \* the directory part of p, with a "/" in front of its first segment
        Dirs(p) == <<"/">> \o SubSeq(p, 1, LastIndexOf(p, "/"))
        Inside(p, d) == Contains(Dirs(p), <<"/">> \o d \o <<"/">>)
        ProtectedDirs == {<<".", "g", "i", "t">>, <<"s", "e", "c", "r", "e", "t", "s">>, <<"c", "r", "e", "d", "e", "n", "t", "i", "a", "l", "s">>}
    IN  /\ pc = "exited" /\ hook = "protect-files" /\ WellFormed /\ PathGiven
        /\ \E d \in ProtectedDirs : Inside(PathRead.v, d)
        => /\ exit_status = 2
           /\ PrintsBlocked
           /\ \E i \in 1..Len(stdout) :
                 /\ stdout[i].text = "   Matches protected pattern: {blocked}"
                 /\ stdout[i].path \in Range(PROTECTED_PATTERNS)
                 /\ \E j \in 1..Len(stdout) :
                       /\ stdout[j].text = "   Reason: {reason}"
                       /\ stdout[j].remediation = PROTECTED_REASONS(stdout[i].path)

\* the labels of the rules of a rule list whose pattern matches the content
\* somewhere, in list order, one for each rule
MatchingLabels(rules, c) ==
    LET Hit(rule) == ReSearch(rule.re, Text(c))
        hits == SelectSeq(rules, Hit)
    IN  [i \in 1..Len(hits) |-> hits[i].label]

\* the patterns of a pattern list that the stripped path or its basename
\* matches, in list order
MatchingPatterns(patterns, p) ==
    LET Hit(pattern) == PatternHit(StripLeading(p), pattern)
    IN  SelectSeq(patterns, Hit)

\* the patterns that the printed lines with this text report, in order
ReportedPatterns(text) ==
    LET IsReport(l) == l.text = text
        reports == SelectSeq(stdout, IsReport)
    IN  [i \in 1..Len(reports) |-> reports[i].path]

\* C13: in each of the three rule sets the findings reported for an input that
\* is scanned are exactly the rules of the list whose pattern matches, in list
\* order, one finding for each such rule: the secret rules in security-check;
\* the debug rules, then the temporary markers, then the size finding in
\* pre-commit-check; the protected patterns in protect-files, or the warn
\* patterns when no protected pattern matches.
C13_MatcherContract ==
    LET labels == [i \in 1..Len(issues) |-> issues[i].label]
    IN  pc = "exited" /\ WellFormed =>
        /\ (hook = "security-check" /\ PathGiven /\ ContentGiven
             /\ ~SecurityExempt(PathRead.v))
            => labels = MatchingLabels(SECRET_PATTERNS, ContentRead)
        /\ (hook = "pre-commit-check" /\ ContentGiven
             /\ PathRead.t = "str" /\ ~should_skip(PathRead.v))
            => labels = MatchingLabels(DEBUG_PATTERNS, ContentRead)
                        \o MatchingLabels(TEMP_MARKERS, ContentRead)
                        \o (IF ByteLen(ContentRead) > 512000 THEN <<"">> ELSE <<>>)
        /\ (hook = "protect-files" /\ PathGiven)
            => LET blocked == MatchingPatterns(PROTECTED_PATTERNS, PathRead.v)
                   warned == MatchingPatterns(WARN_PATTERNS, PathRead.v)
               IN  /\ ReportedPatterns("   Matches protected pattern: {blocked}") = blocked
                   /\ blocked = <<>> =>
                          ReportedPatterns("   Matches pattern: {warned}") = warned

=============================================================================
